---------------------------- MODULE Spec2Model ----------------------------
(***************************************************************************)
(* Model of the OLB placement engine: the latency calculator               *)
(* (src/src/olb_algorithm.py), the placement strategies                    *)
(* (src/src/olb_algorithm.py, src/src/comparison_algorithms.py), the       *)
(* application's module list (src/src/yafs_integration.py) and the metrics *)
(* collector (src/src/metrics.py).                                         *)
(*                                                                         *)
(* Arithmetic.  The code computes in floating point; the model computes    *)
(* the same expressions exactly, over rationals [n, d] with d > 0.  The    *)
(* physical constant (c / (4 pi 1e9))^2 that multiplies every linear       *)
(* channel gain is taken as the unit of noise power, so that               *)
(*   10^(channel_gain/10) = 1 / (carrierFrequency^2 * distance^2)          *)
(* and only the squared distance dx^2 + dy^2 is needed.  A float('inf')    *)
(* result is the record Inf.  None is modelled by NoIndex (a sensor        *)
(* index) and NoNode (a node id).                                          *)
(***************************************************************************)
EXTENDS Integers, Sequences, FiniteSets, TLC

\* ------------------------------------------------------------------ bounds
MaxSensors == 2
MaxNodes == 2
MaxAssigned == 2

\* --------------------------------------------------------------- rationals
Rat(n, d) == [inf |-> FALSE, n |-> n, d |-> d]
Inf == [inf |-> TRUE, n |-> 1, d |-> 1]

RECURSIVE Gcd(_, _)
Gcd(a, b) == IF b = 0 THEN a ELSE Gcd(b, a % b)

\* A rational in lowest terms (the value is unchanged).
Norm(r) ==
    IF r.inf THEN Inf
    ELSE LET g == Gcd(r.n, r.d) IN
         IF g = 0 THEN Rat(0, 1) ELSE Rat(r.n \div g, r.d \div g)

\* x + y on floats, float('inf') absorbing.
Add(x, y) ==
    IF x.inf \/ y.inf THEN Inf
    ELSE Norm(Rat(x.n * y.d + y.n * x.d, x.d * y.d))

\* x < y on floats.
Less(x, y) ==
    IF x.inf THEN FALSE
    ELSE IF y.inf THEN TRUE
    ELSE x.n * y.d < y.n * x.d

\* x <= y on floats.
Leq(x, y) == ~Less(y, x)

\* x = y as numbers.
Same(x, y) == Leq(x, y) /\ Leq(y, x)


\* ------------------------------------------------------- latency calculator
\* calculate_distance, squared: dx**2 + dy**2 (the code takes its square root
\* and every use squares or compares it).
CalculateDistanceSq(sensor_coords, fog_coords) ==
    LET dx == sensor_coords[1] - fog_coords[1]
        dy == sensor_coords[2] - fog_coords[2]
    IN dx * dx + dy * dy

\* A variant of the clamp that lets a load of exactly 1 through.
ClampStrict(load) ==
    IF load.n > load.d THEN Rat(99, 100) ELSE load

\* The load the code feeds into load / (1 - load): "if total >= 1: total = 0.99".
ClampLoad(load) ==
    IF load.n >= load.d THEN Rat(99, 100) ELSE load

\* load / (1 - load); a zero divisor raises ZeroDivisionError, which both
\* calculators catch and turn into float('inf').
LatencyScore(load) ==
    IF load.d - load.n = 0 THEN Inf
    ELSE IF load.d - load.n > 0 THEN Norm(Rat(load.n, load.d - load.n))
    ELSE Norm(Rat(0 - load.n, load.n - load.d))

\* sum of averageFlowRate * flowTrafficSize over a list of sensors
RECURSIVE SumTraffic(_)
SumTraffic(list) ==
    IF list = <<>> THEN 0
    ELSE Head(list).averageFlowRate * Head(list).flowTrafficSize
         + SumTraffic(Tail(list))

\* sum of averageFlowRate * averageFlowSize over a list of sensors
RECURSIVE SumComputing(_)
SumComputing(list) ==
    IF list = <<>> THEN 0
    ELSE Head(list).averageFlowRate * Head(list).averageFlowSize
         + SumComputing(Tail(list))

\* 1 / linear_gain = carrierFrequency^2 * distance^2 (in the unit above),
\* times noisePower: the divisor of transmissionPower in snr.
GainNoise(sensor, fog_node) ==
    fog_node.carrierFrequency * fog_node.carrierFrequency
    * CalculateDistanceSq(sensor.coordinates, fog_node.coordinates)
    * fog_node.noisePower

\* The divisions of calculate_communication_latency that raise:
\* wavelength (carrierFrequency = 0), channel gain (distance = 0),
\* snr (noisePower = 0), the traffic load (device_capacity = 0).
CommunicationRaises(sensor, fog_node) ==
    \/ fog_node.carrierFrequency = 0
    \/ CalculateDistanceSq(sensor.coordinates, fog_node.coordinates) = 0
    \/ fog_node.noisePower = 0
    \/ fog_node.bandwidth = 0

\* total_traffic_load before the clamp: every load is
\* flowRate * trafficSize / device_capacity, with
\* device_capacity = bandwidth * (1 + snr) computed from the CANDIDATE sensor.
TotalTrafficLoad(sensor, fog_node, assigned_sensors) ==
    LET g == GainNoise(sensor, fog_node)
    IN Rat(g * SumTraffic(<<sensor>> \o assigned_sensors),
           fog_node.bandwidth * (g + sensor.transmissionPower))

CalculateCommunicationLatency(sensor, fog_node, assigned_sensors) ==
    IF CommunicationRaises(sensor, fog_node) THEN Inf
    ELSE LatencyScore(ClampLoad(TotalTrafficLoad(sensor, fog_node, assigned_sensors)))

\* total_computing_load before the clamp; processingPower = 0 raises.
TotalComputingLoad(sensor, fog_node, assigned_sensors) ==
    Rat(SumComputing(<<sensor>> \o assigned_sensors), fog_node.processingPower)

CalculateComputingLatency(sensor, fog_node, assigned_sensors) ==
    IF fog_node.processingPower = 0 THEN Inf
    ELSE LatencyScore(ClampLoad(TotalComputingLoad(sensor, fog_node, assigned_sensors)))

\* -------------------------------------------------------------- the state
VARIABLES
    sensors,             \* DigitalTwinEnvironment.sensors
    fog_nodes,           \* DigitalTwinEnvironment.fog_nodes (node i at i + 1)
    modules,             \* app.modules, in order
    algorithm,           \* the placement class in use
    module_assignments,  \* placement.module_assignments: node id -> list
    node_loads,          \* LoadBalancedPlacement.node_loads
    deployed,            \* the sim.deploy_module calls made, in order
    idx,                 \* position of the loop over modules_to_place
    pc,                  \* where the run is
    metrics,             \* the PerformanceMetrics object
    calc,                \* a call of the latency calculator: inputs, results
    width,               \* DigitalTwinEnvironment.width
    height,              \* DigitalTwinEnvironment.height
    cloud_node,          \* DigitalTwinEnvironment.cloud_node
    call,                \* the last call on the environment and its outcome
    instance,            \* the runs of the placement object in use, and of all
    other_assignments    \* module_assignments of the placement object before it

\* The fields of the environment other than its two entity lists, and the
\* record of the last call made on it.
envVars == <<width, height, cloud_node, call>>

\* The placement objects constructed on the environment so far.
runVars == <<instance, other_assignments>>

vars == <<sensors, fog_nodes, modules, algorithm, module_assignments,
          node_loads, deployed, idx, pc, metrics, calc, envVars, runVars>>

NoIndex == 0
NoNode == 0 - 1

\* ----------------------------------------------------------- entity model
\* SensorDevice attributes other than device_id.
SensorChoices ==
    [coordinates : {<<0, 0>>, <<1, 0>>},
     transmissionPower : {1},
     averageFlowRate : {1},
     flowTrafficSize : {1},
     averageFlowSize : {1, 3}]

\* FogNodeDevice attributes other than node_id: two sound nodes, a node
\* without processing power, a node without noise, a large node.
FogNodeChoices ==
    [coordinates : {<<0, 0>>, <<2, 0>>}, processingPower : {4},
     bandwidth : {2}, carrierFrequency : {1}, noisePower : {1}]
    \cup
    {[coordinates |-> <<2, 0>>, processingPower |-> 0,
      bandwidth |-> 2, carrierFrequency |-> 1, noisePower |-> 1],
     [coordinates |-> <<2, 0>>, processingPower |-> 4,
      bandwidth |-> 2, carrierFrequency |-> 1, noisePower |-> 0],
     [coordinates |-> <<1, 1>>, processingPower |-> 8,
      bandwidth |-> 4, carrierFrequency |-> 1, noisePower |-> 1]}

SensorDevice(device_id, a) ==
    [device_id |-> device_id, coordinates |-> a.coordinates,
     transmissionPower |-> a.transmissionPower,
     averageFlowRate |-> a.averageFlowRate,
     flowTrafficSize |-> a.flowTrafficSize,
     averageFlowSize |-> a.averageFlowSize]

FogNodeDevice(node_id, a) ==
    [node_id |-> node_id, coordinates |-> a.coordinates,
     processingPower |-> a.processingPower, bandwidth |-> a.bandwidth,
     carrierFrequency |-> a.carrierFrequency, noisePower |-> a.noisePower,
     assigned_modules |-> <<>>]

\* A sensor with the given id and position, its other attributes fixed.
PlainSensor(device_id, coordinates) ==
    SensorDevice(device_id,
                 [coordinates |-> coordinates, transmissionPower |-> 1,
                  averageFlowRate |-> 1, flowTrafficSize |-> 1,
                  averageFlowSize |-> 1])

\* The first placement object, on its first initial_allocation.
FirstInstance == [runs |-> 1, allocations |-> 1]

\* self.cloud_node = None
NoCloudNode == [node_id |-> "None", coordinates |-> <<0, 0>>]

\* No call has been made on the environment.
NoCall ==
    [op |-> "none", coordinates |-> <<0, 0>>, count |-> 0, raised |-> FALSE,
     previous_raised |-> FALSE]

\* DigitalTwinEnvironment.__init__(width=3000, height=2000)
DefaultWidth == 3000
DefaultHeight == 2000

\* The environments: n sensors with device_id 0..n-1 and m fog nodes with
\* node_id 0..m-1, as initialize_sensors / initialize_fog_nodes number them.
SensorLists ==
    UNION {{[i \in 1..n |-> SensorDevice(i - 1, f[i])] :
                f \in [1..n -> SensorChoices]} : n \in 0..MaxSensors}

FogNodeLists ==
    UNION {{[i \in 1..m |-> FogNodeDevice(i - 1, f[i])] :
                f \in [1..m -> FogNodeChoices]} : m \in 0..MaxNodes}

\* ------------------------------------------------------- application model
\* str(n) and int(s) for the decimal numerals the model needs.
Numerals == <<"0", "1", "2", "3", "4", "5", "6", "7", "8", "9">>

Str(n) == Numerals[n + 1]

IsDigit(part) == \E k \in 1..Len(Numerals) : Numerals[k] = part

ToInt(part) == (CHOOSE k \in 1..Len(Numerals) : Numerals[k] = part) - 1

\* A module name is the list of its parts between underscores.
ClientModule(sensor) == <<"Client", "Module", "Sensor", Str(sensor.device_id)>>

ProcessingModule(sensor) ==
    <<"Processing", "Module", "Sensor", Str(sensor.device_id)>>

StorageModule == <<"Storage", "Module">>

\* create_smart_healthcare_application: per sensor a client and a processing
\* module, then the shared storage module.
RECURSIVE SensorModules(_)
SensorModules(list) ==
    IF list = <<>> THEN <<>>
    ELSE <<ClientModule(Head(list)), ProcessingModule(Head(list))>>
         \o SensorModules(Tail(list))

CreateApplication(digital_twin_sensors) ==
    SensorModules(digital_twin_sensors) \o <<StorageModule>>

\* "Processing_Module" in module_name
IsProcessingModule(module_name) ==
    \E k \in 1..(Len(module_name) - 1) :
        module_name[k] = "Processing" /\ module_name[k + 1] = "Module"

\* modules_to_place: the processing modules of app.modules, in order.
RECURSIVE FilterProcessing(_)
FilterProcessing(list) ==
    IF list = <<>> THEN <<>>
    ELSE IF IsProcessingModule(Head(list))
         THEN <<Head(list)>> \o FilterProcessing(Tail(list))
         ELSE FilterProcessing(Tail(list))

ModulesToPlace == FilterProcessing(modules)

\* _extract_sensor_id: the last all-digit part, as an integer; 0 without one.
RECURSIVE ExtractFrom(_, _)
ExtractFrom(parts, k) ==
    IF k = 0 THEN 0
    ELSE IF IsDigit(parts[k]) THEN ToInt(parts[k])
    ELSE ExtractFrom(parts, k - 1)

\* A variant that looks at the first part only.
ExtractFirstPart(module_name) ==
    IF IsDigit(module_name[1]) THEN ToInt(module_name[1]) ELSE 0

ExtractSensorId(module_name) == ExtractFrom(module_name, Len(module_name))

\* _find_sensor_by_id: the position in sensors of the first sensor with that
\* device_id; NoIndex stands for None.
RECURSIVE FindFrom(_, _)
FindFrom(sensor_id, k) ==
    IF k > Len(sensors) THEN NoIndex
    ELSE IF sensors[k].device_id = sensor_id THEN k
    ELSE FindFrom(sensor_id, k + 1)

\* the first sensor of the environment when none has that device_id
FindOrFirst(sensor_id) ==
    IF FindFrom(sensor_id, 1) = NoIndex /\ Len(sensors) >= 1 THEN 1
    ELSE FindFrom(sensor_id, 1)

FindSensorById(sensor_id) == FindFrom(sensor_id, 1)

\* f"fog_{node_id}"
FogName(node_id) == <<"fog", Str(node_id)>>

\* ---------------------------------------------------------- OLB placement
\* self.module_assignments.get(i, [])
AssignedTo(i) ==
    IF i \in DOMAIN module_assignments THEN module_assignments[i] ELSE <<>>

\* comm_latency + comp_latency of fog node i for a sensor, with the node's
\* list as it stands.
TotalLatency(sensor, i) ==
    Add(CalculateCommunicationLatency(sensor, fog_nodes[i + 1], AssignedTo(i)),
        CalculateComputingLatency(sensor, fog_nodes[i + 1], AssignedTo(i)))

\* The loop of _find_optimal_fog_node from node i on.
RECURSIVE ScanFogNodes(_, _, _, _)
ScanFogNodes(sensor, i, min_latency, optimal_node_id) ==
    IF i >= Len(fog_nodes) THEN optimal_node_id
    ELSE IF Less(TotalLatency(sensor, i), min_latency)
         THEN ScanFogNodes(sensor, i + 1, TotalLatency(sensor, i), i)
         ELSE ScanFogNodes(sensor, i + 1, min_latency, optimal_node_id)

\* Variants of the selection: the first node with a finite total; a scan that
\* an infinite total ends; a scan that takes a node on an equal total.
FirstFiniteFogNode(sensor) ==
    IF \A i \in 0..(Len(fog_nodes) - 1) : TotalLatency(sensor, i).inf
    THEN NoNode
    ELSE CHOOSE i \in 0..(Len(fog_nodes) - 1) :
            /\ ~TotalLatency(sensor, i).inf
            /\ \A j \in 0..(i - 1) : TotalLatency(sensor, j).inf

RECURSIVE ScanAborting(_, _, _, _)
ScanAborting(sensor, i, min_latency, optimal_node_id) ==
    IF i >= Len(fog_nodes) THEN optimal_node_id
    ELSE IF TotalLatency(sensor, i).inf THEN optimal_node_id
    ELSE IF Less(TotalLatency(sensor, i), min_latency)
         THEN ScanAborting(sensor, i + 1, TotalLatency(sensor, i), i)
         ELSE ScanAborting(sensor, i + 1, min_latency, optimal_node_id)

AbortingFogNode(sensor) == ScanAborting(sensor, 0, Inf, NoNode)

RECURSIVE ScanLast(_, _, _, _)
ScanLast(sensor, i, min_latency, optimal_node_id) ==
    IF i >= Len(fog_nodes) THEN optimal_node_id
    ELSE IF Leq(TotalLatency(sensor, i), min_latency)
         THEN ScanLast(sensor, i + 1, TotalLatency(sensor, i), i)
         ELSE ScanLast(sensor, i + 1, min_latency, optimal_node_id)

LastOptimalFogNode(sensor) == ScanLast(sensor, 0, Inf, NoNode)

FindOptimalFogNode(sensor) == ScanFogNodes(sensor, 0, Inf, NoNode)

\* the sensor put at the front of the node's list
PrependAssignment(assignments, node_id, sensor) ==
    IF node_id \in DOMAIN assignments
    THEN [assignments EXCEPT ![node_id] = <<sensor>> \o @]
    ELSE (node_id :> <<sensor>>) @@ assignments

\* if node not in module_assignments: module_assignments[node] = []
\* module_assignments[node].append(sensor)
AppendAssignment(assignments, node_id, sensor) ==
    IF node_id \in DOMAIN assignments
    THEN [assignments EXCEPT ![node_id] = Append(@, sensor)]
    ELSE (node_id :> <<sensor>>) @@ assignments

\* sim.deploy_module(app_name, module_name, [], [node_name])
DeployModule(module_name, node_name) ==
    Append(deployed, [module |-> module_name, services |-> <<>>,
                      nodes |-> <<node_name>>])

\* An iteration that also notes the module in the chosen node's own
\* assigned_modules list.
OLBStepNotingModule ==
    /\ pc = "placing" /\ algorithm = "OLB"
    /\ idx <= Len(ModulesToPlace)
    /\ LET module_name == ModulesToPlace[idx]
           k == FindSensorById(ExtractSensorId(module_name))
       IN IF k # NoIndex /\ FindOptimalFogNode(sensors[k]) # NoNode
          THEN LET optimal_node_id == FindOptimalFogNode(sensors[k])
               IN /\ deployed' = DeployModule(module_name, FogName(optimal_node_id))
                  /\ module_assignments' =
                         AppendAssignment(module_assignments, optimal_node_id, sensors[k])
                  /\ fog_nodes' =
                         [fog_nodes EXCEPT
                            ![optimal_node_id + 1].assigned_modules =
                                Append(@, module_name)]
          ELSE UNCHANGED <<deployed, module_assignments, fog_nodes>>
    /\ idx' = idx + 1
    /\ UNCHANGED <<sensors, modules, algorithm, node_loads, pc, metrics, calc,
                   envVars, runVars>>

\* One iteration of the loop of OLBPlacement.initial_allocation.
OLBStep ==
    /\ pc = "placing" /\ algorithm = "OLB"
    /\ idx <= Len(ModulesToPlace)
    /\ LET module_name == ModulesToPlace[idx]
           k == FindSensorById(ExtractSensorId(module_name))
       IN IF k # NoIndex
          THEN LET optimal_node_id == FindOptimalFogNode(sensors[k])
               IN IF optimal_node_id # NoNode
                  THEN /\ deployed' = DeployModule(module_name, FogName(optimal_node_id))
                       /\ module_assignments' =
                              AppendAssignment(module_assignments, optimal_node_id, sensors[k])
                  ELSE /\ deployed' = DeployModule(module_name, FogName(0))
                       /\ UNCHANGED module_assignments
          ELSE UNCHANGED <<deployed, module_assignments>>
    /\ idx' = idx + 1
    /\ UNCHANGED <<sensors, fog_nodes, modules, algorithm, node_loads, pc, metrics, calc, envVars, runVars>>

\* ------------------------------------------------- baseline placements
\* One iteration of the loop of RandomPlacement.initial_allocation:
\* random.randint(0, len(fog_nodes) - 1) raises ValueError on an empty range;
\* the key is created before the sensor is looked up.
RandomStep ==
    /\ pc = "placing" /\ algorithm = "Random"
    /\ idx <= Len(ModulesToPlace)
    /\ IF Len(fog_nodes) = 0
       THEN /\ pc' = "raised"
            /\ UNCHANGED <<deployed, module_assignments, idx>>
       ELSE \E fog_node_id \in 0..(Len(fog_nodes) - 1) :
              LET module_name == ModulesToPlace[idx]
                  k == FindSensorById(ExtractSensorId(module_name))
                  created == IF fog_node_id \in DOMAIN module_assignments
                             THEN module_assignments
                             ELSE (fog_node_id :> <<>>) @@ module_assignments
              IN /\ deployed' = DeployModule(module_name, FogName(fog_node_id))
                 /\ module_assignments' =
                        IF k # NoIndex
                        THEN AppendAssignment(created, fog_node_id, sensors[k])
                        ELSE created
                 /\ idx' = idx + 1
                 /\ pc' = pc
    /\ UNCHANGED <<sensors, fog_nodes, modules, algorithm, node_loads, metrics, calc, envVars, runVars>>

\* The inner loop of DistancePlacement.initial_allocation from node i on
\* (distances compared by their squares).
RECURSIVE ScanClosest(_, _, _, _, _)
ScanClosest(sensor, i, have_min, min_distance_sq, closest_node_id) ==
    IF i >= Len(fog_nodes) THEN closest_node_id
    ELSE LET d == CalculateDistanceSq(sensor.coordinates, fog_nodes[i + 1].coordinates)
         IN IF ~have_min \/ d < min_distance_sq
            THEN ScanClosest(sensor, i + 1, TRUE, d, i)
            ELSE ScanClosest(sensor, i + 1, have_min, min_distance_sq, closest_node_id)

\* the position of the closest node, counted from 1
ClosestNodeFromOne(sensor) == ScanClosest(sensor, 0, FALSE, 0, 0) + 1

\* min_distance = float('inf'); closest_node_id = 0; the loop.
ClosestNode(sensor) == ScanClosest(sensor, 0, FALSE, 0, 0)

\* One iteration of the loop of DistancePlacement.initial_allocation.
DistanceStep ==
    /\ pc = "placing" /\ algorithm = "Distance"
    /\ idx <= Len(ModulesToPlace)
    /\ LET module_name == ModulesToPlace[idx]
           k == FindSensorById(ExtractSensorId(module_name))
       IN IF k # NoIndex
          THEN LET closest_node_id == ClosestNode(sensors[k])
               IN /\ deployed' = DeployModule(module_name, FogName(closest_node_id))
                  /\ module_assignments' =
                         AppendAssignment(module_assignments, closest_node_id, sensors[k])
          ELSE UNCHANGED <<deployed, module_assignments>>
    /\ idx' = idx + 1
    /\ UNCHANGED <<sensors, fog_nodes, modules, algorithm, node_loads, pc, metrics, calc, envVars, runVars>>

\* the first key, whatever the loads
FirstNodeKey ==
    CHOOSE i \in DOMAIN node_loads : \A j \in DOMAIN node_loads : i <= j

\* the last key with the smallest load
MinLoadNodeLast ==
    CHOOSE i \in DOMAIN node_loads :
        /\ \A j \in DOMAIN node_loads : node_loads[i] <= node_loads[j]
        /\ \A j \in DOMAIN node_loads : node_loads[j] = node_loads[i] => j <= i

\* min(self.node_loads.keys(), key=lambda x: self.node_loads[x]): the first
\* key, in the order 0, 1, ... of their insertion, with the smallest load.
MinLoadNode ==
    CHOOSE i \in DOMAIN node_loads :
        /\ \A j \in DOMAIN node_loads : node_loads[i] <= node_loads[j]
        /\ \A j \in DOMAIN node_loads : node_loads[j] = node_loads[i] => i <= j

\* One iteration of the loop of LoadBalancedPlacement.initial_allocation;
\* min() of no keys raises ValueError.
LoadBalancedStep ==
    /\ pc = "placing" /\ algorithm = "LoadBalanced"
    /\ idx <= Len(ModulesToPlace)
    /\ LET module_name == ModulesToPlace[idx]
           k == FindSensorById(ExtractSensorId(module_name))
       IN IF k # NoIndex
          THEN IF DOMAIN node_loads = {}
               THEN /\ pc' = "raised"
                    /\ UNCHANGED <<deployed, module_assignments, node_loads, idx>>
               ELSE /\ deployed' = DeployModule(module_name, FogName(MinLoadNode))
                    /\ module_assignments' =
                           AppendAssignment(module_assignments, MinLoadNode, sensors[k])
                    /\ node_loads' = [node_loads EXCEPT ![MinLoadNode] = @ + 1]
                    /\ idx' = idx + 1
                    /\ pc' = pc
          ELSE /\ idx' = idx + 1
               /\ UNCHANGED <<deployed, module_assignments, node_loads, pc>>
    /\ UNCHANGED <<sensors, fog_nodes, modules, algorithm, metrics, calc, envVars, runVars>>

\* initial_allocation returns once the loop over modules_to_place is over.
FinishAllocation ==
    /\ pc = "placing"
    /\ idx > Len(ModulesToPlace)
    /\ pc' = "placed"
    /\ UNCHANGED <<sensors, fog_nodes, modules, algorithm, module_assignments,
                   node_loads, deployed, idx, metrics, calc, envVars, runVars>>

\* ----------------------------------------------------------------- metrics
\* PerformanceMetrics.__init__ (the fields the collector's loop, its latency
\* and energy totals and its load-balance score write).
NewMetrics ==
    [overall_latency |-> Rat(0, 1), communication_latency |-> Rat(0, 1),
     computing_latency |-> Rat(0, 1),
     energy_consumption |-> [transmission |-> Rat(0, 1), processing_nano |-> Rat(0, 1)],
     network_usage |-> 0, max_utilization |-> 0,
     load_balance_score |-> Rat(0, 1),
     detailed_assignments |-> <<>>]

\* MetricsDefinitions.calculate_energy_consumption: the transmission energy
\* transmissionPower * flowTrafficSize / (bandwidth * 1e-3) and the processing
\* energy processingPower * 1e-6 * (averageFlowSize / processingPower * 1e-3),
\* the latter in units of 1e-9.  Either division raises on a zero divisor.
CalculateEnergyConsumption(sensor, fog_node) ==
    IF fog_node.bandwidth = 0 \/ fog_node.processingPower = 0
    THEN [raises |-> TRUE, transmission |-> Rat(0, 1), processing_nano |-> Rat(0, 1)]
    ELSE [raises |-> FALSE,
          transmission |-> Norm(Rat(1000 * sensor.transmissionPower * sensor.flowTrafficSize,
                                    fog_node.bandwidth)),
          processing_nano |-> Norm(Rat(fog_node.processingPower * sensor.averageFlowSize,
                                       fog_node.processingPower))]

\* sum(loads) over the lists of the given keys.
RECURSIVE SumLoads(_, _)
SumLoads(assignments, keys) ==
    IF keys = {} THEN 0
    ELSE LET i == CHOOSE j \in keys : TRUE
         IN Len(assignments[i]) + SumLoads(assignments, keys \ {i})

\* sum((load - mean_load)**2 for load in loads), times count**2: with
\* mean_load = total / count each term is (count * load - total)**2 / count**2.
RECURSIVE SumSquaredDeviations(_, _, _, _)
SumSquaredDeviations(assignments, keys, count, total) ==
    IF keys = {} THEN 0
    ELSE LET i == CHOOSE j \in keys : TRUE
             dev == count * Len(assignments[i]) - total
         IN dev * dev + SumSquaredDeviations(assignments, keys \ {i}, count, total)

\* variance = sum((load - mean_load)**2 for load in loads) / len(loads)
LoadVariance(assignments) ==
    LET keys == DOMAIN assignments
        count == Cardinality(keys)
    IN Norm(Rat(SumSquaredDeviations(assignments, keys, count,
                                     SumLoads(assignments, keys)),
                count * count * count))

\* 1.0 - variance
OneMinusVariance(assignments) ==
    LET v == LoadVariance(assignments) IN Norm(Rat(v.d - v.n, v.d))

\* 1.0 for up to two keys, 1.0 / (1.0 + variance) above
EvenBelowThreeKeys(assignments) ==
    IF Cardinality(DOMAIN assignments) <= 2 THEN Rat(1, 1)
    ELSE LET v == LoadVariance(assignments) IN Norm(Rat(v.d, v.d + v.n))

\* MetricsDefinitions.calculate_load_balance_score: 0 for a map without
\* keys, 1.0 for a map with one key, 1.0 / (1.0 + variance) otherwise; every
\* key counts, the keys of empty lists included.
CalculateLoadBalanceScore(assignments) ==
    IF DOMAIN assignments = {} THEN Rat(0, 1)
    ELSE IF Cardinality(DOMAIN assignments) <= 1 THEN Rat(1, 1)
    ELSE LET v == LoadVariance(assignments) IN Norm(Rat(v.d, v.d + v.n))

\* The (node, sensor) pairs the two loops of collect_metrics visit, from key
\* i on: keys that index no fog node are skipped.  (The model visits the keys
\* in ascending order, the code in the order of their insertion.)
RECURSIVE AssignmentPairs(_)
AssignmentPairs(i) ==
    IF i >= Len(fog_nodes) THEN <<>>
    ELSE (IF i \in DOMAIN module_assignments
          THEN [k \in 1..Len(module_assignments[i]) |->
                   [node_id |-> i, sensor |-> module_assignments[i][k]]]
          ELSE <<>>)
         \o AssignmentPairs(i + 1)

\* [s for s in assigned_sensors if s != sensor]
RECURSIVE OtherSensors(_, _)
OtherSensors(list, sensor) ==
    IF list = <<>> THEN <<>>
    ELSE IF Head(list) # sensor
         THEN <<Head(list)>> \o OtherSensors(Tail(list), sensor)
         ELSE OtherSensors(Tail(list), sensor)

\* The locals of collect_metrics when its loops start: energy is not bound.
MetricsLocals ==
    [raised |-> FALSE, energy_bound |-> FALSE,
     total_comm_latency |-> Rat(0, 1), total_comp_latency |-> Rat(0, 1),
     total_energy |-> [transmission |-> Rat(0, 1), processing_nano |-> Rat(0, 1)],
     detailed_assignments |-> metrics.detailed_assignments]

\* The body of the inner loop for one (node, sensor) pair.  The trace line
\* formats `energy`, a local that is assigned only further down: reading it
\* while it is unbound raises UnboundLocalError.
MetricsIteration(st, pair) ==
    LET fog_node == fog_nodes[pair.node_id + 1]
        other_sensors == OtherSensors(module_assignments[pair.node_id], pair.sensor)
        comm == CalculateCommunicationLatency(pair.sensor, fog_node, other_sensors)
        comp == CalculateComputingLatency(pair.sensor, fog_node, other_sensors)
        comm_lat == IF comm.inf \/ comp.inf THEN Rat(1000, 1) ELSE comm
        comp_lat == IF comm.inf \/ comp.inf THEN Rat(1000, 1) ELSE comp
        energy == CalculateEnergyConsumption(pair.sensor, fog_node)
    IN IF ~st.energy_bound THEN [st EXCEPT !.raised = TRUE]
       ELSE IF energy.raises THEN [st EXCEPT !.raised = TRUE]
       ELSE [st EXCEPT
               !.total_comm_latency = Add(@, comm_lat),
               !.total_comp_latency = Add(@, comp_lat),
               !.total_energy =
                   [transmission |-> Add(@.transmission, energy.transmission),
                    processing_nano |-> Add(@.processing_nano, energy.processing_nano)],
               !.energy_bound = TRUE,
               !.detailed_assignments =
                   Append(@, [sensor_id |-> pair.sensor.device_id,
                              fog_node_id |-> fog_node.node_id,
                              comm_latency |-> comm_lat,
                              comp_latency |-> comp_lat,
                              total_latency |-> Add(comm_lat, comp_lat)])]

RECURSIVE MetricsLoop(_, _)
MetricsLoop(st, pairs) ==
    IF pairs = <<>> \/ st.raised THEN st
    ELSE MetricsLoop(MetricsIteration(st, Head(pairs)), Tail(pairs))

\* max(node_utilizations) if node_utilizations else 0
MaxUtilization ==
    LET loads == {Len(module_assignments[i]) :
                     i \in {j \in DOMAIN module_assignments : j < Len(fog_nodes)}}
    IN IF loads = {} THEN 0 ELSE CHOOSE m \in loads : \A n \in loads : n <= m

\* PerformanceMetrics.collect_metrics on the finished placement.  (The
\* execution time and the cost, which follow the loops and are derived from
\* the totals, are not part of the record.)
CollectMetrics ==
    /\ pc = "placed"
    /\ LET st == MetricsLoop(MetricsLocals, AssignmentPairs(0))
       IN IF st.raised
          THEN /\ pc' = "collect_raised"
               /\ metrics' = [metrics EXCEPT
                                !.detailed_assignments = st.detailed_assignments]
          ELSE /\ pc' = "collected"
               /\ metrics' =
                    [overall_latency |-> Add(st.total_comm_latency, st.total_comp_latency),
                     communication_latency |-> st.total_comm_latency,
                     computing_latency |-> st.total_comp_latency,
                     energy_consumption |-> st.total_energy,
                     network_usage |-> SumTraffic(sensors),
                     max_utilization |-> MaxUtilization,
                     load_balance_score |->
                         CalculateLoadBalanceScore(module_assignments),
                     detailed_assignments |-> st.detailed_assignments]
    /\ UNCHANGED <<sensors, fog_nodes, modules, algorithm, module_assignments,
                   node_loads, deployed, idx, calc, envVars, runVars>>

\* ------------------------------------------------------- the placement run
Algorithms == {"OLB", "Random", "Distance", "LoadBalanced"}

\* The state once the environment, the application and one placement object
\* are constructed (the __init__ of the placement classes).
Init ==
    /\ sensors \in SensorLists
    /\ fog_nodes \in FogNodeLists
    /\ modules = CreateApplication(sensors)
    /\ algorithm \in Algorithms
    /\ module_assignments = <<>>
    /\ node_loads = IF algorithm = "LoadBalanced"
                    THEN [i \in 0..(Len(fog_nodes) - 1) |-> 0]
                    ELSE <<>>
    /\ deployed = <<>>
    /\ idx = 1
    /\ pc = "placing"
    /\ metrics = NewMetrics
    /\ calc = [pc |-> "idle"]
    /\ width = DefaultWidth
    /\ height = DefaultHeight
    /\ cloud_node = NoCloudNode
    /\ call = NoCall
    /\ instance = FirstInstance
    /\ other_assignments = <<>>

Next ==
    \/ OLBStep
    \/ RandomStep
    \/ DistanceStep
    \/ LoadBalancedStep
    \/ FinishAllocation
    \/ CollectMetrics

Spec == Init /\ [][Next]_vars

\* ------------------------- a placement run over an application gone stale
\* Fog nodes that reject no sensor of SensorChoices.
MissFogNodeChoices ==
    {a \in FogNodeChoices :
        /\ a.processingPower # 0 /\ a.noisePower # 0
        /\ a.coordinates # <<0, 0>>}

MissFogNodeLists ==
    UNION {{[i \in 1..m |-> FogNodeDevice(i - 1, f[i])] :
                f \in [1..m -> MissFogNodeChoices]} : m \in 0..MaxNodes}

\* The list with the entry put in after its first p entries.
InsertAt(list, p, entry) ==
    SubSeq(list, 1, p) \o <<entry>> \o SubSeq(list, p + 1, Len(list))

\* As Init, but the application was created while the environment held one
\* more sensor (device_id n, anywhere in the list) than the n sensors
\* 0..n-1 the placement finds in it: that sensor's modules match no sensor.
MissInit ==
    /\ sensors \in SensorLists
    /\ fog_nodes \in MissFogNodeLists
    /\ \E p \in 0..Len(sensors) :
          modules = CreateApplication(
                        InsertAt(sensors, p, PlainSensor(Len(sensors), <<0, 0>>)))
    /\ algorithm \in Algorithms
    /\ module_assignments = <<>>
    /\ node_loads = IF algorithm = "LoadBalanced"
                    THEN [i \in 0..(Len(fog_nodes) - 1) |-> 0]
                    ELSE <<>>
    /\ deployed = <<>>
    /\ idx = 1
    /\ pc = "placing"
    /\ metrics = NewMetrics
    /\ calc = [pc |-> "idle"]
    /\ width = DefaultWidth
    /\ height = DefaultHeight
    /\ cloud_node = NoCloudNode
    /\ call = NoCall
    /\ instance = FirstInstance
    /\ other_assignments = <<>>

SpecMiss == MissInit /\ [][Next]_vars

\* ------------------------------------------- the calculator, called alone
CalcSensorChoices ==
    [coordinates : {<<0, 0>>, <<1, 0>>},
     transmissionPower : {1},
     averageFlowRate : {1, 2},
     flowTrafficSize : {1, 199},
     averageFlowSize : {1, 199}]

CalcAssignedChoices ==
    {a \in CalcSensorChoices : a.coordinates = <<0, 0>> /\ a.averageFlowRate = 1}

CalcNodeChoices ==
    [coordinates : {<<0, 0>>},
     processingPower : {0, 2, 200},
     bandwidth : {0, 1, 100},
     carrierFrequency : {0, 1},
     noisePower : {0, 1}]

CalcAssignedLists ==
    UNION {{[i \in 1..n |-> SensorDevice(i, f[i])] :
                f \in [1..n -> CalcAssignedChoices]} : n \in 0..MaxAssigned}

CalcInit ==
    /\ calc \in [pc : {"ready"},
                 sensor : {SensorDevice(0, a) : a \in CalcSensorChoices},
                 fog_node : {FogNodeDevice(0, a) : a \in CalcNodeChoices},
                 assigned_sensors : CalcAssignedLists,
                 comm_latency : {Rat(0, 1)},
                 comp_latency : {Rat(0, 1)}]
    /\ sensors = <<>>
    /\ fog_nodes = <<>>
    /\ modules = <<>>
    /\ algorithm = "None"
    /\ module_assignments = <<>>
    /\ node_loads = <<>>
    /\ deployed = <<>>
    /\ idx = 1
    /\ pc = "idle"
    /\ metrics = NewMetrics
    /\ width = DefaultWidth
    /\ height = DefaultHeight
    /\ cloud_node = NoCloudNode
    /\ call = NoCall
    /\ instance = FirstInstance
    /\ other_assignments = <<>>

\* One call of each of calculate_communication_latency and
\* calculate_computing_latency on the same arguments.
CalculateLatencies ==
    /\ calc.pc = "ready"
    /\ calc' = [calc EXCEPT
                  !.pc = "done",
                  !.comm_latency = CalculateCommunicationLatency(
                                       calc.sensor, calc.fog_node, calc.assigned_sensors),
                  !.comp_latency = CalculateComputingLatency(
                                       calc.sensor, calc.fog_node, calc.assigned_sensors)]
    /\ UNCHANGED <<sensors, fog_nodes, modules, algorithm, module_assignments,
                   node_loads, deployed, idx, pc, metrics, envVars, runVars>>

NextCalc == CalculateLatencies

SpecCalc == CalcInit /\ [][NextCalc]_vars

\* --------------------------------------- the load-balance score, called alone
ScoreKeys == 3
ScoreLoad == 3

\* The assignment maps handed to the score: any set of keys below ScoreKeys,
\* each with a list of 0..ScoreLoad sensors (distinct ids throughout).
ScoreMaps ==
    UNION {{[i \in keys |->
                [k \in 1..len[i] |-> PlainSensor(i * ScoreLoad + k - 1, <<0, 0>>)]] :
                len \in [keys -> 0..ScoreLoad]} :
              keys \in SUBSET (0..(ScoreKeys - 1))}

ScoreInit ==
    /\ module_assignments \in ScoreMaps
    /\ pc = "scoring"
    /\ metrics = NewMetrics
    /\ sensors = <<>>
    /\ fog_nodes = <<>>
    /\ modules = <<>>
    /\ algorithm = "None"
    /\ node_loads = <<>>
    /\ deployed = <<>>
    /\ idx = 1
    /\ calc = [pc |-> "idle"]
    /\ width = DefaultWidth
    /\ height = DefaultHeight
    /\ cloud_node = NoCloudNode
    /\ call = NoCall
    /\ instance = FirstInstance
    /\ other_assignments = <<>>

\* self.load_balance_score =
\*     MetricsDefinitions.calculate_load_balance_score(assignments)
ScoreAssignments ==
    /\ pc = "scoring"
    /\ metrics' = [metrics EXCEPT
                     !.load_balance_score =
                         CalculateLoadBalanceScore(module_assignments)]
    /\ pc' = "scored"
    /\ UNCHANGED <<sensors, fog_nodes, modules, algorithm, module_assignments,
                   node_loads, deployed, idx, calc, envVars, runVars>>

NextScore == ScoreAssignments

SpecScore == ScoreInit /\ [][NextScore]_vars

\* ------------------------------------------------ building the environment
MaxEntities == 2

\* DigitalTwinEnvironment(width, height): the default extent and a narrow one.
EnvSizes == {<<DefaultWidth, DefaultHeight>>, <<50, 50>>}

\* A fog node with the given id and position, its other attributes fixed.
PlainFogNode(node_id, coordinates) ==
    FogNodeDevice(node_id,
                  [coordinates |-> coordinates, processingPower |-> 4,
                   bandwidth |-> 2, carrierFrequency |-> 1, noisePower |-> 1])

\* 0 <= x only
XNotNegative(coordinates) == 0 <= coordinates[1]

\* 0 < x < width and 0 < y < height
InBoundsExclusive(coordinates) ==
    /\ 0 < coordinates[1] /\ coordinates[1] < width
    /\ 0 < coordinates[2] /\ coordinates[2] < height

\* 0 <= coordinates[0] <= self.width and 0 <= coordinates[1] <= self.height
InBounds(coordinates) ==
    /\ 0 <= coordinates[1] /\ coordinates[1] <= width
    /\ 0 <= coordinates[2] /\ coordinates[2] <= height

\* The positions a caller hands to add_sensor / add_fog_node: two corners of
\* the extent, a position beyond its right side and one below its lower side.
AddChoices ==
    {<<0, 0>>, <<width, height>>, <<width + 1, height>>, <<0, 0 - 1>>}

CallOf(op, coordinates, count, raised) ==
    [op |-> op, coordinates |-> coordinates, count |-> count, raised |-> raised,
     previous_raised |-> call.raised]

\* DigitalTwinEnvironment.add_sensor: append, or raise ValueError.
AddSensor ==
    /\ pc = "building"
    /\ Len(sensors) < MaxEntities
    /\ \E coordinates \in AddChoices :
          IF InBounds(coordinates)
          THEN /\ sensors' = Append(sensors, PlainSensor(Len(sensors), coordinates))
               /\ call' = CallOf("add_sensor", coordinates, 1, FALSE)
          ELSE /\ sensors' = sensors
               /\ call' = CallOf("add_sensor", coordinates, 1, TRUE)
    /\ UNCHANGED <<fog_nodes, cloud_node, width, height, modules, algorithm,
                   module_assignments, node_loads, deployed, idx, pc, metrics, calc,
                   runVars>>

\* DigitalTwinEnvironment.add_fog_node: append, or raise ValueError.
AddFogNode ==
    /\ pc = "building"
    /\ Len(fog_nodes) < MaxEntities
    /\ \E coordinates \in AddChoices :
          IF InBounds(coordinates)
          THEN /\ fog_nodes' = Append(fog_nodes,
                                      PlainFogNode(Len(fog_nodes), coordinates))
               /\ call' = CallOf("add_fog_node", coordinates, 1, FALSE)
          ELSE /\ fog_nodes' = fog_nodes
               /\ call' = CallOf("add_fog_node", coordinates, 1, TRUE)
    /\ UNCHANGED <<sensors, cloud_node, width, height, modules, algorithm,
                   module_assignments, node_loads, deployed, idx, pc, metrics, calc,
                   runVars>>

\* The values of random.uniform(a, b) = a + (b - a) * random() the model
\* draws, for random() (which is in [0, 1)) at 0 and at 1/2.
Uniform(a, b, draw) == a + ((b - a) * draw) \div 2

\* The draws taken for the two coordinates of one entity.
UniformDraws == {<<0, 0>>, <<1, 1>>}

Min(a, b) == IF a < b THEN a ELSE b

\* The calls of add_sensor / add_fog_node of one initialize_* loop, which
\* the first ValueError ends.
RECURSIVE AddEach(_, _)
AddEach(list, entities) ==
    IF entities = <<>> THEN [list |-> list, raised |-> FALSE]
    ELSE IF InBounds(Head(entities).coordinates)
         THEN AddEach(Append(list, Head(entities)), Tail(entities))
         ELSE [list |-> list, raised |-> TRUE]

\* DigitalTwinEnvironment.initialize_sensors(num_sensors, seed)
InitializeSensors ==
    /\ pc = "building"
    /\ \E num_sensors \in 0..(MaxEntities - Len(sensors)) :
       \E draws \in [1..num_sensors -> UniformDraws] :
          LET new == [i \in 1..num_sensors |->
                         PlainSensor(i - 1, <<Uniform(0, width, draws[i][1]),
                                              Uniform(0, height, draws[i][2])>>)]
              done == AddEach(sensors, new)
          IN /\ sensors' = done.list
             /\ call' = CallOf("initialize_sensors", <<0, 0>>, num_sensors, done.raised)
    /\ UNCHANGED <<fog_nodes, cloud_node, width, height, modules, algorithm,
                   module_assignments, node_loads, deployed, idx, pc, metrics, calc,
                   runVars>>

\* DigitalTwinEnvironment.initialize_fog_nodes(num_fog_nodes, seed)
InitializeFogNodes ==
    /\ pc = "building"
    /\ \E num_fog_nodes \in 0..(MaxEntities - Len(fog_nodes)) :
       \E draws \in [1..num_fog_nodes -> UniformDraws] :
          LET max_x == Min(2500, width - 100)
              max_y == Min(1500, height - 100)
              new == [i \in 1..num_fog_nodes |->
                         PlainFogNode(i - 1, <<Uniform(100, max_x, draws[i][1]),
                                               Uniform(100, max_y, draws[i][2])>>)]
              done == AddEach(fog_nodes, new)
          IN /\ fog_nodes' = done.list
             /\ call' = CallOf("initialize_fog_nodes", <<0, 0>>, num_fog_nodes,
                               done.raised)
    /\ UNCHANGED <<sensors, cloud_node, width, height, modules, algorithm,
                   module_assignments, node_loads, deployed, idx, pc, metrics, calc,
                   runVars>>

\* DigitalTwinEnvironment.initialize_cloud: no bounds check.
InitializeCloud ==
    /\ pc = "building"
    /\ cloud_node' = [node_id |-> "cloud",
                      coordinates |-> <<width \div 2, height + 500>>]
    /\ call' = CallOf("initialize_cloud", <<0, 0>>, 1, FALSE)
    /\ UNCHANGED <<sensors, fog_nodes, width, height, modules, algorithm,
                   module_assignments, node_loads, deployed, idx, pc, metrics, calc,
                   runVars>>

EnvInit ==
    /\ \E size \in EnvSizes : width = size[1] /\ height = size[2]
    /\ sensors = <<>>
    /\ fog_nodes = <<>>
    /\ cloud_node = NoCloudNode
    /\ call = NoCall
    /\ instance = FirstInstance
    /\ other_assignments = <<>>
    /\ pc = "building"
    /\ modules = <<>>
    /\ algorithm = "None"
    /\ module_assignments = <<>>
    /\ node_loads = <<>>
    /\ deployed = <<>>
    /\ idx = 1
    /\ metrics = NewMetrics
    /\ calc = [pc |-> "idle"]

NextEnv ==
    \/ AddSensor
    \/ AddFogNode
    \/ InitializeSensors
    \/ InitializeFogNodes
    \/ InitializeCloud

SpecEnv == EnvInit /\ [][NextEnv]_vars

\* ------------------------------------- several runs on one environment
MaxRuns == 2

\* Environments of sensors and fog nodes that differ in their ids only.
RerunSensorLists ==
    {[i \in 1..n |-> PlainSensor(i - 1, <<1, 0>>)] : n \in 1..MaxSensors}

RerunFogNodeLists ==
    {[i \in 1..m |-> PlainFogNode(i - 1, <<2, 0>>)] : m \in 0..MaxNodes}

RerunInit ==
    /\ sensors \in RerunSensorLists
    /\ fog_nodes \in RerunFogNodeLists
    /\ modules = CreateApplication(sensors)
    /\ algorithm \in Algorithms
    /\ module_assignments = <<>>
    /\ node_loads = IF algorithm = "LoadBalanced"
                    THEN [i \in 0..(Len(fog_nodes) - 1) |-> 0]
                    ELSE <<>>
    /\ deployed = <<>>
    /\ idx = 1
    /\ pc = "placing"
    /\ metrics = NewMetrics
    /\ calc = [pc |-> "idle"]
    /\ width = DefaultWidth
    /\ height = DefaultHeight
    /\ cloud_node = NoCloudNode
    /\ call = NoCall
    /\ instance = FirstInstance
    /\ other_assignments = <<>>

\* The initial_allocation calls started so far, on all placement objects.
AllocationsStarted == instance.allocations

\* initial_allocation is called once more on the placement object in use:
\* nothing but the loop's own variables is set up anew
\* (module_assignments and node_loads are created in __init__ only).
InitialAllocationAgain ==
    /\ pc = "placed"
    /\ AllocationsStarted < MaxRuns
    /\ instance' = [runs |-> instance.runs + 1,
                    allocations |-> instance.allocations + 1]
    /\ idx' = 1
    /\ pc' = "placing"
    /\ UNCHANGED <<sensors, fog_nodes, modules, algorithm, module_assignments,
                   node_loads, deployed, metrics, calc, envVars, other_assignments>>

\* A new placement object, of any of the classes, is constructed on the same
\* environment, for a new simulation, and its initial_allocation is called;
\* the object used before keeps its map.
NewPlacement ==
    /\ pc = "placed"
    /\ AllocationsStarted < MaxRuns
    /\ algorithm' \in Algorithms
    /\ node_loads' = IF algorithm' = "LoadBalanced"
                     THEN [i \in 0..(Len(fog_nodes) - 1) |-> 0]
                     ELSE <<>>
    /\ module_assignments' = <<>>
    /\ other_assignments' = module_assignments
    /\ instance' = [runs |-> 1, allocations |-> instance.allocations + 1]
    /\ deployed' = <<>>
    /\ idx' = 1
    /\ pc' = "placing"
    /\ UNCHANGED <<sensors, fog_nodes, modules, metrics, calc, envVars>>

NextRerun ==
    \/ OLBStep
    \/ RandomStep
    \/ DistanceStep
    \/ LoadBalancedStep
    \/ FinishAllocation
    \/ InitialAllocationAgain
    \/ NewPlacement

SpecRerun == RerunInit /\ [][NextRerun]_vars

\* ------------------------------------------------------------ the claims
NodeIds == 0..(Len(fog_nodes) - 1)

\* How often a sensor occurs in the lists of module_assignments.
Occurrences(sensor) ==
    Cardinality({p \in UNION {{<<i, k>> : k \in 1..Len(module_assignments[i])} :
                                 i \in DOMAIN module_assignments} :
                    module_assignments[p[1]][p[2]] = sensor})

\* The number of entries of all lists of module_assignments.
TotalEntries ==
    Cardinality(UNION {{<<i, k>> : k \in 1..Len(module_assignments[i])} :
                          i \in DOMAIN module_assignments})

\* The step about to run is an iteration of the OLB loop for a module whose
\* sensor is found, in an environment with at least one fog node.
OLBPlacing ==
    /\ algorithm = "OLB" /\ pc = "placing"
    /\ idx <= Len(ModulesToPlace)
    /\ Len(fog_nodes) >= 1
    /\ FindSensorById(ExtractSensorId(ModulesToPlace[idx])) # NoIndex

\* The sensor that iteration is about.
OLBSensor == sensors[FindSensorById(ExtractSensorId(ModulesToPlace[idx]))]

\* This step appends the sensor to the list of node i.
Commits(i, sensor) == AssignedTo(i)' = Append(AssignedTo(i), sensor)

\* This step deploys the module at hand to fog_<i>.
Deploys(i) == deployed' = DeployModule(ModulesToPlace[idx], FogName(i))

\* C1 (coverage): after an OLB run over N sensors and M >= 1 fog nodes every
\* sensor is in exactly one list of module_assignments, exactly once, and the
\* lists hold N entries in all.
C1_Coverage ==
    (algorithm = "OLB" /\ pc = "placed" /\ Len(fog_nodes) >= 1)
        => /\ \A k \in 1..Len(sensors) : Occurrences(sensors[k]) = 1
           /\ TotalEntries = Len(sensors)

\* C2 (greedy local optimality): whenever an OLB step appends a sensor to the
\* list of a node, that node's comm + comp, computed with the lists as they
\* stand before the step, is <= that of every fog node.
C2_GreedyLocalOptimality ==
    [][OLBPlacing =>
         \A i \in NodeIds :
            Commits(i, OLBSensor) =>
                \A j \in NodeIds :
                    Leq(TotalLatency(OLBSensor, i), TotalLatency(OLBSensor, j))]_vars

\* An OLB run has put sensors on node 0 and on node 1: the later decision was
\* taken against a node that already carried load.
C2_Witness ==
    /\ algorithm = "OLB" /\ pc = "placed"
    /\ 0 \in DOMAIN module_assignments /\ 1 \in DOMAIN module_assignments
    /\ \E a, b \in FogNodeChoices :
          /\ a # b
          /\ fog_nodes[1] = FogNodeDevice(0, a)
          /\ fog_nodes[2] = FogNodeDevice(1, b)

\* C3 (all-nodes-rejected fallback): when every fog node's comm + comp is
\* infinite for the sensor at hand, the OLB step deploys its module to fog_0
\* and appends the sensor to node 0's list.
C3_FallbackRecorded ==
    [][(OLBPlacing /\ \A j \in NodeIds : TotalLatency(OLBSensor, j).inf)
          => (Deploys(0) /\ Commits(0, OLBSensor))]_vars

\* ratio r lies in [0, 99]
InClampRange(r) == Leq(Rat(0, 1), r) /\ Leq(r, Rat(99, 1))

\* load >= 1
Saturated(load) == load.n >= load.d

\* C4 (clamp bound): every finite value the two calculators return lies in
\* [0, 99].
C4_ClampBound ==
    calc.pc = "done" =>
        /\ ~calc.comm_latency.inf => InClampRange(calc.comm_latency)
        /\ ~calc.comp_latency.inf => InClampRange(calc.comp_latency)

\* C5 (clamp at saturation): when the summed load is defined and >= 1, each
\* calculator returns exactly 99.
C5_ClampAtSaturation ==
    calc.pc = "done" =>
        /\ (~CommunicationRaises(calc.sensor, calc.fog_node)
            /\ Saturated(TotalTrafficLoad(calc.sensor, calc.fog_node,
                                          calc.assigned_sensors)))
              => calc.comm_latency = Rat(99, 1)
        /\ (calc.fog_node.processingPower # 0
            /\ Saturated(TotalComputingLoad(calc.sensor, calc.fog_node,
                                            calc.assigned_sensors)))
              => calc.comp_latency = Rat(99, 1)

\* A single sensor whose load alone equals the node's capacity (load exactly
\* 1, for traffic and for computing) got 99 from both calculators.
C5_Witness ==
    /\ calc.pc = "done"
    /\ calc.assigned_sensors = <<>>
    /\ ~CommunicationRaises(calc.sensor, calc.fog_node)
    /\ LET load == TotalTrafficLoad(calc.sensor, calc.fog_node, <<>>)
       IN load.n = load.d
    /\ calc.sensor.averageFlowRate * calc.sensor.averageFlowSize
          = calc.fog_node.processingPower
    /\ calc.comm_latency = Rat(99, 1)
    /\ calc.comp_latency = Rat(99, 1)

\* C6 (zero distance): a sensor at the coordinates of a fog node whose
\* carrier frequency, noise power and bandwidth are not zero gets a finite
\* communication latency.
C6_ZeroDistanceFinite ==
    (/\ calc.pc = "done"
     /\ calc.sensor.coordinates = calc.fog_node.coordinates
     /\ calc.fog_node.carrierFrequency # 0
     /\ calc.fog_node.noisePower # 0
     /\ calc.fog_node.bandwidth # 0)
        => ~calc.comm_latency.inf

\* C7 (node rejection is local): an OLB step for a found sensor deploys the
\* module to some fog node and goes on to the next module; the node it
\* deploys to has an infinite comm + comp only if every fog node has.
C7_RejectionIsLocal ==
    [][OLBPlacing =>
         /\ idx' = idx + 1 /\ pc' = "placing"
         /\ \E i \in NodeIds :
               /\ Deploys(i)
               /\ TotalLatency(OLBSensor, i).inf
                     => \A j \in NodeIds : TotalLatency(OLBSensor, j).inf]_vars

\* An OLB run put a sensor on node 1 although node 0 has no processing power
\* (its computing latency is infinite for every sensor).
C7_Witness ==
    /\ algorithm = "OLB" /\ pc = "placed"
    /\ Len(fog_nodes) >= 2
    /\ fog_nodes[1].processingPower = 0
    /\ 1 \in DOMAIN module_assignments

\* C8 (tie-breaking): the node an OLB step appends the sensor to has the
\* lowest index among the nodes whose comm + comp equals its own.
C8_TieBreaking ==
    [][OLBPlacing =>
         \A i \in NodeIds :
            Commits(i, OLBSensor) =>
                \A j \in NodeIds :
                    Same(TotalLatency(OLBSensor, j), TotalLatency(OLBSensor, i))
                        => i <= j]_vars

\* The first sensor of an OLB run met two fog nodes that differ in node_id
\* only (equal comm + comp, both lists empty) and was put on node 0.
C8_Witness ==
    /\ algorithm = "OLB"
    /\ Len(fog_nodes) = 2 /\ Len(sensors) >= 1
    /\ \E a \in FogNodeChoices :
          fog_nodes[1] = FogNodeDevice(0, a) /\ fog_nodes[2] = FogNodeDevice(1, a)
    /\ 0 \in DOMAIN module_assignments
    /\ Head(module_assignments[0]) = sensors[1]

\* C9 (assignment-map invariant): for all four strategies, at every point of
\* a run each sensor occurs at most once in the lists of module_assignments,
\* and the sensor of a module the loop has not reached yet occurs in none.
C9_AssignmentMapInvariant ==
    (pc \in {"placing", "placed", "raised"}) =>
        /\ \A k \in 1..Len(sensors) : Occurrences(sensors[k]) <= 1
        /\ pc = "placing" =>
              \A p \in idx..Len(ModulesToPlace) :
                 LET k == FindSensorById(ExtractSensorId(ModulesToPlace[p]))
                 IN k # NoIndex => Occurrences(sensors[k]) = 0

\* Midway through a run over two sensors: the first is in a list, the second,
\* not yet processed, in none.
C9_Witness ==
    /\ pc = "placing" /\ idx = 2
    /\ Len(sensors) = 2
    /\ Occurrences(sensors[1]) = 1
    /\ Occurrences(sensors[2]) = 0

\* C10 (metrics collection completes): on a map whose keys all index fog
\* nodes and that holds at least one sensor, collect_metrics does not raise.
C10_MetricsCompletes ==
    (/\ DOMAIN module_assignments \subseteq NodeIds
     /\ TotalEntries >= 1)
        => pc # "collect_raised"

\* The score of the map at hand has been computed.
Scored == pc = "scored"

\* The lengths of the lists of the map at hand.
KeyLoads == {Len(module_assignments[i]) : i \in DOMAIN module_assignments}

\* C11 (load-balance range), as stated: for any assignment map, the map
\* without entries included, the load-balance score is greater than 0 and at
\* most 1.
C11_ScoreRange ==
    Scored => /\ Less(Rat(0, 1), metrics.load_balance_score)
              /\ Leq(metrics.load_balance_score, Rat(1, 1))

\* C11 (load-balance range), amended: for any assignment map with at least
\* one key the load-balance score is greater than 0 and at most 1; for the
\* map without entries it is 0.
C11_ScoreRangeAmended ==
    Scored =>
        IF DOMAIN module_assignments = {}
        THEN Same(metrics.load_balance_score, Rat(0, 1))
        ELSE /\ Less(Rat(0, 1), metrics.load_balance_score)
             /\ Leq(metrics.load_balance_score, Rat(1, 1))

\* The score of a map whose loads have a variance above 1 (loads 0 and 3)
\* has been computed.
C11_Witness ==
    /\ Scored
    /\ 0 \in KeyLoads /\ ScoreLoad \in KeyLoads
    /\ Less(metrics.load_balance_score, Rat(1, 2))

\* C12 (load-balance evenness), as stated: the score is exactly 1 when all
\* nodes that carry at least one sensor carry equal counts, and strictly
\* below 1 when two such nodes carry different counts.
C12_Evenness ==
    Scored =>
        /\ Cardinality(KeyLoads \ {0}) <= 1
              => Same(metrics.load_balance_score, Rat(1, 1))
        /\ Cardinality(KeyLoads \ {0}) >= 2
              => Less(metrics.load_balance_score, Rat(1, 1))

\* C12 (load-balance evenness), amended: for a map with at least one key the
\* score is exactly 1 when all keys of the map carry equal counts, the keys
\* of empty lists counting with 0, and strictly below 1 when two keys carry
\* different counts.
C12_EvennessAmended ==
    (Scored /\ DOMAIN module_assignments # {}) =>
        /\ Cardinality(KeyLoads) = 1
              => Same(metrics.load_balance_score, Rat(1, 1))
        /\ Cardinality(KeyLoads) >= 2
              => Less(metrics.load_balance_score, Rat(1, 1))

\* The score of a map of two or more keys with equal, non-zero counts has
\* been computed and is 1.
C12_Witness ==
    /\ Scored
    /\ Cardinality(DOMAIN module_assignments) >= 2
    /\ KeyLoads = {2}
    /\ metrics.load_balance_score = Rat(1, 1)

\* The position lies in the rectangle [0, width] x [0, height].
Inside(coordinates) ==
    /\ 0 <= coordinates[1] /\ coordinates[1] <= width
    /\ 0 <= coordinates[2] /\ coordinates[2] <= height

\* Every sensor and every fog node of the environment lies in its extent.
SensorsAndFogNodesInside ==
    /\ \A k \in 1..Len(sensors) : Inside(sensors[k].coordinates)
    /\ \A k \in 1..Len(fog_nodes) : Inside(fog_nodes[k].coordinates)

\* C13 (environment bounds invariant), as stated: after any sequence of
\* add_sensor, add_fog_node, initialize_sensors, initialize_fog_nodes and
\* initialize_cloud calls every sensor, every fog node and the cloud node, if
\* present, has coordinates inside [0, width] x [0, height].
C13_BoundsInvariant ==
    /\ SensorsAndFogNodesInside
    /\ cloud_node # NoCloudNode => Inside(cloud_node.coordinates)

\* C13 (environment bounds invariant), amended: after any sequence of those
\* calls every sensor and every fog node has coordinates inside
\* [0, width] x [0, height]; the cloud node, if present, is at
\* (width / 2, height + 500), above the extent.
C13_BoundsInvariantAmended ==
    /\ SensorsAndFogNodesInside
    /\ cloud_node # NoCloudNode =>
          /\ cloud_node.coordinates = <<width \div 2, height + 500>>
          /\ ~Inside(cloud_node.coordinates)

\* An environment with sensors, fog nodes and the cloud node, on which a call
\* has just raised.
C13_Witness ==
    /\ pc = "building"
    /\ Len(sensors) >= 1 /\ Len(fog_nodes) >= 1
    /\ cloud_node # NoCloudNode
    /\ call.raised

\* The step appends one entity at the given position to the list and leaves
\* its earlier entries as they were.
AppendedAt(before, after, coordinates) ==
    /\ Len(after) = Len(before) + 1
    /\ SubSeq(after, 1, Len(before)) = before
    /\ after[Len(after)].coordinates = coordinates

\* C14 (bounds violation is local): a call of add_sensor / add_fog_node with
\* a position outside [0, width] x [0, height] raises and leaves both lists
\* (and the rest of the environment) as they were; with a position inside,
\* boundaries included, it appends the entity at the end of its list and
\* changes nothing else; this holds whatever the previous call's outcome.
C14_BoundsViolationLocal ==
    [][/\ call'.op = "add_sensor" =>
            IF Inside(call'.coordinates)
            THEN /\ ~call'.raised
                 /\ AppendedAt(sensors, sensors', call'.coordinates)
                 /\ UNCHANGED <<fog_nodes, cloud_node, width, height>>
            ELSE /\ call'.raised
                 /\ UNCHANGED <<sensors, fog_nodes, cloud_node, width, height>>
       /\ call'.op = "add_fog_node" =>
            IF Inside(call'.coordinates)
            THEN /\ ~call'.raised
                 /\ AppendedAt(fog_nodes, fog_nodes', call'.coordinates)
                 /\ UNCHANGED <<sensors, cloud_node, width, height>>
            ELSE /\ call'.raised
                 /\ UNCHANGED <<sensors, fog_nodes, cloud_node, width, height>>]_vars

\* A sensor has just been added on the boundary of the extent, to an
\* environment that holds a fog node, and the call before that one raised.
C14_Witness ==
    /\ call.op = "add_sensor" /\ ~call.raised /\ call.previous_raised
    /\ call.coordinates = <<width, height>>
    /\ Len(sensors) = MaxEntities /\ Len(fog_nodes) >= 1

\* No sensor of the environment has the device_id the module's name ends in.
Missing(module_name) ==
    \A k \in 1..Len(sensors) : sensors[k].device_id # ExtractSensorId(module_name)

\* The step about to run is an iteration of the placement loop.
LoopStep == pc = "placing" /\ idx <= Len(ModulesToPlace)

\* C15 (lookup miss in OLB): an OLB step for a module whose extracted sensor
\* id matches no sensor of the environment makes no deploy_module call, leaves
\* module_assignments as it was and moves on to the next module.
C15_OLBMissSkipped ==
    [][(algorithm = "OLB" /\ LoopStep /\ Missing(ModulesToPlace[idx]))
          => /\ deployed' = deployed
             /\ module_assignments' = module_assignments
             /\ idx' = idx + 1 /\ pc' = "placing"]_vars

\* An OLB run is over in which the first module matched no sensor and every
\* sensor of the environment, one at least, was placed after it.
C15_Witness ==
    /\ algorithm = "OLB" /\ pc = "placed"
    /\ Missing(ModulesToPlace[1])
    /\ Len(sensors) >= 1
    /\ Len(deployed) = Len(sensors)
    /\ TotalEntries = Len(sensors)

\* C16 (lookup miss in the baselines): a step of RandomPlacement,
\* DistancePlacement or LoadBalancedPlacement for a module whose sensor id
\* matches no sensor makes no deploy_module call and leaves module_assignments
\* (keys and lists) and the load counters as they were.
C16_BaselineMissSkipped ==
    [][(algorithm \in {"Random", "Distance", "LoadBalanced"}
           /\ LoopStep /\ Missing(ModulesToPlace[idx]))
          => /\ deployed' = deployed
             /\ module_assignments' = module_assignments
             /\ node_loads' = node_loads]_vars

Baselines == {"Random", "Distance", "LoadBalanced"}

\* The deploy_module call a placement makes for the module of a sensor put
\* on node i.
DeployCall(sensor, i) ==
    [module |-> ProcessingModule(sensor), services |-> <<>>,
     nodes |-> <<FogName(i)>>]

\* C17 (baseline coverage): after a run of RandomPlacement, DistancePlacement
\* or LoadBalancedPlacement over one Processing_Module per sensor, with
\* distinct device_ids and at least one fog node, every sensor is in exactly
\* one list of module_assignments, every key is a fog-node index 0..M-1, and
\* the sensor's module was deployed to the node named fog_<its key>.
C17_BaselineCoverage ==
    (algorithm \in Baselines /\ pc = "placed" /\ Len(fog_nodes) >= 1)
        => /\ DOMAIN module_assignments \subseteq NodeIds
           /\ Len(deployed) = Len(sensors)
           /\ \A k \in 1..Len(sensors) :
                 /\ Occurrences(sensors[k]) = 1
                 /\ \E i \in DOMAIN module_assignments :
                       /\ \E n \in 1..Len(module_assignments[i]) :
                             module_assignments[i][n] = sensors[k]
                       /\ deployed[k] = DeployCall(sensors[k], i)

\* A DistancePlacement run over as many sensors as the bound allows is over
\* and has used two nodes.
C17_Witness ==
    /\ algorithm = "Distance" /\ pc = "placed"
    /\ Len(sensors) = MaxSensors
    /\ Cardinality(DOMAIN module_assignments) >= 2

\* The sensor the module at hand names.
StepSensor ==
    sensors[CHOOSE k \in 1..Len(sensors) :
                sensors[k].device_id = ExtractSensorId(ModulesToPlace[idx])]

\* Node i has the smallest load counter, and the lowest id of those that do.
LeastLoaded(i) ==
    /\ \A j \in NodeIds : node_loads[i] <= node_loads[j]
    /\ \A j \in NodeIds : j < i => node_loads[j] > node_loads[i]

\* C18 (least-loaded choice): every step of LoadBalancedPlacement for a found
\* sensor assigns it to the fog node whose load counter is smallest over all
\* fog nodes, the lowest node id on ties, whatever the attributes of the
\* sensor and the nodes, and raises that node's counter by one.
C18_LeastLoadedChoice ==
    [][(algorithm = "LoadBalanced" /\ LoopStep /\ Len(fog_nodes) >= 1
           /\ ~Missing(ModulesToPlace[idx]))
          => \E i \in NodeIds :
                /\ LeastLoaded(i)
                /\ Deploys(i)
                /\ Commits(i, StepSensor)
                /\ node_loads' = [node_loads EXCEPT ![i] = @ + 1]]_vars

\* A LoadBalancedPlacement run over two fog nodes of different attributes is
\* over: the first sensor went to node 0 on a tie, the second to node 1.
C18_Witness ==
    /\ algorithm = "LoadBalanced" /\ pc = "placed"
    /\ Len(fog_nodes) = 2 /\ Len(sensors) = 2
    /\ fog_nodes[1].processingPower # fog_nodes[2].processingPower
    /\ AssignedTo(0) = <<sensors[1]>> /\ AssignedTo(1) = <<sensors[2]>>

\* C19 (deploy/record consistency): an OLB step for a module whose sensor is
\* found makes exactly one deploy_module call, with no services and the
\* single target fog_<i>, and appends the sensor to the list of that same
\* key i; a step for a module whose sensor is not found makes none; no call
\* is for a client or storage module.
C19_DeployRecordConsistent ==
    [][(algorithm = "OLB" /\ LoopStep)
          => /\ IF Missing(ModulesToPlace[idx])
                THEN deployed' = deployed
                ELSE \E i \in NodeIds : Deploys(i) /\ Commits(i, StepSensor)
             /\ \A k \in 1..Len(deployed') : IsProcessingModule(deployed'[k].module)]_vars

\* C21 (no abort, run to completion): for every strategy and every
\* environment, initial_allocation does not raise, and when it has returned
\* the loop has gone over every processing module.
C21_NoAbort ==
    /\ pc # "raised"
    /\ pc = "placed" => idx = Len(ModulesToPlace) + 1

\* The two fog nodes differ in nothing but node_id and position.
IdenticalButPlace(a, b) ==
    /\ a.processingPower = b.processingPower /\ a.bandwidth = b.bandwidth
    /\ a.carrierFrequency = b.carrierFrequency /\ a.noisePower = b.noisePower

\* The squared distance between the sensor and fog node i.
DistanceSqTo(sensor, i) ==
    CalculateDistanceSq(sensor.coordinates, fog_nodes[i + 1].coordinates)

\* C22 (nearer node wins): for two fog nodes with identical bandwidth,
\* carrierFrequency, noisePower and processingPower and no prior assignments,
\* the OLB step for a sensor deploys its module to, and records the sensor
\* under, the node at the strictly smaller distance, whichever of the two
\* comes first.
C22_NearerNodeWins ==
    [][(OLBPlacing /\ Len(fog_nodes) = 2 /\ module_assignments = <<>>
           /\ IdenticalButPlace(fog_nodes[1], fog_nodes[2]))
          => \A i, j \in NodeIds :
                DistanceSqTo(OLBSensor, i) < DistanceSqTo(OLBSensor, j)
                    => (Deploys(i) /\ Commits(i, OLBSensor))]_vars

\* The last n entries of the list have the ids 0..n-1, in that order, and lie
\* in the extent.
LastNumberedFromZero(list, n, id(_)) ==
    /\ Len(list) >= n
    /\ \A k \in 1..n :
          /\ id(list[Len(list) - n + k]) = k - 1
          /\ Inside(list[Len(list) - n + k].coordinates)

SensorId(sensor) == sensor.device_id
FogNodeId(fog_node) == fog_node.node_id

\* C23 (seeded initialisation): for any extent and any counts n and m,
\* initialize_sensors(n) appends exactly n sensors with device_ids 0..n-1 and
\* initialize_fog_nodes(m) appends exactly m fog nodes with node_ids 0..m-1,
\* each inside the extent, and neither call raises a bounds error.
C23_SeededInitialisation ==
    [][/\ call'.op = "initialize_sensors" =>
            /\ ~call'.raised
            /\ Len(sensors') = Len(sensors) + call'.count
            /\ SubSeq(sensors', 1, Len(sensors)) = sensors
            /\ LastNumberedFromZero(sensors', call'.count, SensorId)
       /\ call'.op = "initialize_fog_nodes" =>
            /\ ~call'.raised
            /\ Len(fog_nodes') = Len(fog_nodes) + call'.count
            /\ SubSeq(fog_nodes', 1, Len(fog_nodes)) = fog_nodes
            /\ LastNumberedFromZero(fog_nodes', call'.count, FogNodeId)]_vars

\* C24 (unique sensor identity): after any sequence of population operations
\* on one environment no two sensors of environment.sensors share a
\* device_id.
C24_UniqueDeviceIds ==
    \A j, k \in 1..Len(sensors) :
        j # k => sensors[j].device_id # sensors[k].device_id

\* C25 (monotone assignment, no backtracking): in every step of an OLB run
\* each list of module_assignments stays as it is or grows by one sensor
\* appended at its end, and a sensor, once in a list, stays there and is in
\* no list more than once.
C25_MonotoneAssignment ==
    [][algorithm = "OLB" =>
         /\ \A i \in NodeIds \cup DOMAIN module_assignments :
               \/ AssignedTo(i)' = AssignedTo(i)
               \/ \E k \in 1..Len(sensors) : Commits(i, sensors[k])
         /\ \A k \in 1..Len(sensors) :
               /\ Occurrences(sensors[k]) <= Occurrences(sensors[k])'
               /\ Occurrences(sensors[k])' <= 1]_vars

\* An OLB run is over that appended a second sensor to a list.
C25_Witness ==
    /\ algorithm = "OLB" /\ pc = "placed"
    /\ \E i \in NodeIds : Len(AssignedTo(i)) >= 2


\* C26 (fresh map per run): when initial_allocation is called a second time
\* on one placement object, of any strategy, the run starts from empty
\* per-node lists, and when it is over module_assignments holds each sensor
\* at most once.
C26_FreshMapPerRun ==
    instance.runs >= 2 =>
        /\ (pc = "placing" /\ idx = 1) =>
              \A i \in DOMAIN module_assignments : module_assignments[i] = <<>>
        /\ pc = "placed" =>
              \A k \in 1..Len(sensors) : Occurrences(sensors[k]) <= 1


\* The sum of one latency field over the records of detailed_assignments.
RECURSIVE SumOfRecords(_, _)
SumOfRecords(records, field) ==
    IF records = <<>> THEN Rat(0, 1)
    ELSE Add(Head(records)[field], SumOfRecords(Tail(records), field))

\* C27 (metrics aggregation): after collect_metrics on a finished assignment
\* map, detailed_assignments holds exactly one record per (node, sensor) pair
\* of the map, communication_latency and computing_latency are the sums of
\* the records' comm_latency and comp_latency, and overall_latency is
\* communication_latency + computing_latency.
C27_MetricsAggregation ==
    pc \in {"collected", "collect_raised"} =>
        LET records == metrics.detailed_assignments
            pairs == AssignmentPairs(0)
        IN /\ Len(records) = Len(pairs)
           /\ \A k \in 1..Len(records) :
                 /\ k <= Len(pairs)
                 /\ records[k].sensor_id = pairs[k].sensor.device_id
                 /\ records[k].fog_node_id = pairs[k].node_id
           /\ Same(metrics.communication_latency,
                   SumOfRecords(records, "comm_latency"))
           /\ Same(metrics.computing_latency,
                   SumOfRecords(records, "comp_latency"))
           /\ Same(metrics.overall_latency,
                   Add(metrics.communication_latency, metrics.computing_latency))


C29_LatencyGrowsWithLoad ==
    calc.pc = "done" =>
        \A a \in CalcAssignedChoices :
            LET more == Append(calc.assigned_sensors,
                               SensorDevice(Len(calc.assigned_sensors) + 1, a))
            IN /\ Leq(calc.comp_latency,
                      CalculateComputingLatency(calc.sensor, calc.fog_node, more))
               /\ Leq(calc.comm_latency,
                      CalculateCommunicationLatency(calc.sensor, calc.fog_node, more))


\* The sensor a deployed module belongs to: the first with the id in its name.
SensorOfModule(module_name) ==
    sensors[CHOOSE j \in 1..Len(sensors) :
                /\ sensors[j].device_id = ExtractSensorId(module_name)
                /\ \A h \in 1..(j - 1) :
                      sensors[h].device_id # ExtractSensorId(module_name)]

\* C30 (round-robin balance): at every step of a LoadBalancedPlacement run on
\* M >= 1 fog nodes each node's counter is the length of its list in
\* module_assignments, the counts of any two of the M nodes differ by at most
\* 1, and the k-th sensor placed (counting from 0) went to node k mod M.
C30_RoundRobinBalance ==
    (algorithm = "LoadBalanced" /\ Len(fog_nodes) >= 1) =>
        LET M == Len(fog_nodes)
        IN /\ DOMAIN node_loads = NodeIds
           /\ \A i \in NodeIds : node_loads[i] = Len(AssignedTo(i))
           /\ \A i, j \in NodeIds : Len(AssignedTo(i)) - Len(AssignedTo(j)) <= 1
           /\ \A k \in 0..(Len(deployed) - 1) :
                 /\ deployed[k + 1].nodes = <<FogName(k % M)>>
                 /\ Len(AssignedTo(k % M)) >= (k \div M) + 1
                 /\ AssignedTo(k % M)[(k \div M) + 1]
                        = SensorOfModule(deployed[k + 1].module)

\* A LoadBalancedPlacement run over two fog nodes has placed a sensor on each
\* and has come back to a tie of the counters.
C30_Witness ==
    /\ algorithm = "LoadBalanced"
    /\ Len(fog_nodes) = 2
    /\ Len(deployed) = 2
    /\ node_loads[0] = 1 /\ node_loads[1] = 1

=============================================================================
